---- MODULE Spec2Model ----
(***************************************************************************)
(* Dead-code elimination pass (src/src/passes/DeadCode.cpp) over a small   *)
(* SSA module: DeadCode::run and the steps it calls, clear_basic_blocks,   *)
(* mark, sweep and sweep_globally.  The IR classes (Module, Function,      *)
(* BasicBlock, Instruction) are not part of the pass; they are modelled    *)
(* from the data model of the specification.                               *)
(***************************************************************************)
EXTENDS Integers, Sequences, FiniteSets, TLC

\* ------------------------------------------------------------------ bounds
\* Blocks of function "main" in the control-flow family of modules.
NumBlocks == 3
\* Body instructions of function "main" in the data-flow family of modules.
NumBody == 2
\* Successive invocations of run() on the same module.
MaxRuns == 2

\* ------------------------------------------------------------- IR universe
\* A block is <<"bb", f, n>>, an instruction is <<tag, n>> with tag one of
\* "t" (the terminator of block n), "x", "phi", "v", "d", "e".  A function
\* used as an operand is <<"fn", name>>, a global variable is <<"g", n>>.
Functions == <<"main", "helper">>
FuncNames == {Functions[i] : i \in DOMAIN Functions}
MainBlock(n) == <<"bb", "main", n>>
HelperEntry == <<"bb", "helper", 0>>
GlobalVariables == << <<"g", 1>>, <<"g", 2>> >>

VARIABLES
    \* the IR: fixed description of the instructions
    kind,            \* Instruction -> opcode
    operands,        \* Instruction -> sequence of operand values
    parent,          \* Instruction -> the block that owns it
    entry_block,     \* Function -> its designated entry block
    \* the IR: what the pass changes
    basic_blocks,    \* Function -> sequence of the blocks it contains
    instructions,    \* BasicBlock -> sequence of the instructions it contains
    \* the pass object
    marked,          \* instructions with marked[ins] = true
    work_list,       \* FIFO of instructions awaiting operand propagation
    ins_count,       \* number of instructions erased by sweep
    changed,         \* the flag of run()'s do-while loop
    pc,              \* position inside run()
    fidx,            \* position of the for loop over m_->get_functions()
    \* bookkeeping for the properties
    calls,           \* completed invocations of run()
    iter,            \* outer iteration of the current invocation
    pre,             \* the IR at the start of the current invocation
    iter_pre,        \* the IR at the start of the current outer iteration
    swept,           \* instructions erased by the most recent sweep
    clear_ret,       \* return values of clear_basic_blocks in this iteration
    sweep_ret,       \* return values of sweep in this iteration
    \* the module's top level
    functions,       \* m_->get_functions()
    global_variable, \* m_->get_global_variable()
    \* sweep_globally
    unused_funcs,    \* the vector unused_funcs of the last scan
    unused_globals,  \* the vector unused_globals of the last scan
    found_log,       \* the "Found ... unused" messages logged so far
    \* more bookkeeping for the properties
    order,           \* the steps called in this outer iteration, in order
    mark_at,         \* the function and the IR of the most recent mark
    pushed           \* the instructions the most recent mark has queued

ir_vars == <<kind, operands, parent, entry_block, basic_blocks, instructions>>
pass_vars == <<marked, work_list, ins_count, changed, pc, fidx>>
hist_vars == <<calls, iter, pre, iter_pre, swept, clear_ret, sweep_ret>>
module_vars == <<functions, global_variable>>
scan_vars == <<unused_funcs, unused_globals, found_log>>
trace_vars == <<order, mark_at, pushed>>
vars == <<ir_vars, pass_vars, hist_vars, module_vars, scan_vars, trace_vars>>

\* ----------------------------------------------------------------- helpers
Range(s) == {s[i] : i \in DOMAIN s}

RECURSIVE SeqOfSet(_)
\* The elements of a finite set of comparable values as a sequence.
SeqOfSet(S) ==
    IF S = {} THEN <<>>
    ELSE LET m == CHOOSE a \in S : \A b \in S : a <= b
         IN <<m>> \o SeqOfSet(S \ {m})

IsBlock(v) == v[1] = "bb"

\* dynamic_cast<Instruction *>(operand) on an object that is alive.
IsInstruction(v) == v[1] \in {"t", "x", "phi", "v", "d", "e"}

\* ---------------------------------------------------------------- IR reads
RECURSIVE Flatten(_, _)
\* The instructions of the blocks bbs, in block order then in-block order.
Flatten(bbs, instrs) ==
    IF bbs = <<>> THEN <<>>
    ELSE instrs[Head(bbs)] \o Flatten(Tail(bbs), instrs)

\* Iteration over func->get_basic_blocks() and bb.get_instructions().
FuncInstrsOf(bbs, instrs, f) == Flatten(bbs[f], instrs)
FuncInstrs(f) == FuncInstrsOf(basic_blocks, instructions, f)
InstrSet(f) == Range(FuncInstrs(f))
BlockSet(f) == Range(basic_blocks[f])
AllBlocks == UNION {BlockSet(f) : f \in FuncNames}
AllInstrs == UNION {InstrSet(f) : f \in FuncNames}

\* An object the pass has deleted (a block erased by clear_basic_blocks with
\* the instructions it owned, or an instruction erased by sweep).
Destroyed(v) ==
    IF IsBlock(v) THEN v \notin AllBlocks ELSE IsInstruction(v) /\ v \notin AllInstrs

\* v.get_use_list(): the instructions of the module that have v as operand.
get_use_list(v) == {j \in AllInstrs : v \in Range(operands[j])}

\* bb->get_pre_basic_blocks(): the blocks of the function that hold a branch
\* targeting bb.
get_pre_basic_blocks(f, bb) ==
    {p \in BlockSet(f) :
        \E i \in Range(instructions[p]) :
            kind[i] = "br" /\ bb \in Range(operands[i])}

\* ------------------------------------------------------ DeadCode::is_critical
\* is_critical without its test for branches: a br is not kept.
is_critical_without_br(ins) ==
    kind[ins] \in {"store", "ret", "call", "phi", "alloca", "load"}

\* is_critical without its last test: loads are not kept.
is_critical_without_load(ins) ==
    kind[ins] \in {"store", "ret", "call", "br", "phi", "alloca"}

is_critical(ins) ==
    IF kind[ins] = "store" THEN TRUE
    ELSE IF kind[ins] = "ret" THEN TRUE
    ELSE IF kind[ins] = "call" THEN TRUE
    ELSE IF kind[ins] = "br" THEN TRUE
    ELSE IF kind[ins] = "phi" THEN TRUE
    ELSE IF kind[ins] = "alloca" THEN TRUE
    ELSE IF kind[ins] = "load" THEN TRUE
    ELSE FALSE

\* ------------------------------------------- DeadCode::mark(Instruction *)
\* st is [marked, work_list]; the result is st after mark(ins).
MarkIns(st, ins) ==
    IF ins \notin st.marked
    THEN [marked |-> st.marked \cup {ins}, work_list |-> Append(st.work_list, ins)]
    ELSE st

RECURSIVE MarkCritical(_, _)
\* The first loop of mark(func) over the instructions s in program order.
MarkCritical(st, s) ==
    IF s = <<>> THEN st
    ELSE MarkCritical(IF is_critical(Head(s)) THEN MarkIns(st, Head(s)) ELSE st,
                      Tail(s))

\* The operand loop without `work_list.push_back(operand_ins)`: the operands
\* are marked and never visited.
MarkOperands_without_push(st, ops, k, cast) ==
    [marked |-> st.marked \cup
                    {ops[n] : n \in {n \in DOMAIN ops :
                                        /\ n >= k
                                        /\ IsInstruction(ops[n])
                                        /\ (n \in DOMAIN cast => cast[n])}},
     work_list |-> st.work_list]

RECURSIVE MarkOperands(_, _, _, _)
\* The loop over ins->get_operands() for one dequeued instruction: ops are its
\* operands from position k on.  cast[k] is the result of the dynamic_cast on
\* an operand that is a deleted object (TRUE: the freed memory still reads as
\* the instruction it was); operands that are alive are cast by their type.
MarkOperands(st, ops, k, cast) ==
    IF k > Len(ops) THEN st
    ELSE LET operand == ops[k]
             operand_ins == IF k \in DOMAIN cast
                            THEN cast[k] /\ IsInstruction(operand)
                            ELSE IsInstruction(operand)
         IN MarkOperands(IF operand_ins THEN MarkIns(st, operand) ELSE st,
                         ops, k + 1, cast)

\* ---------------------------------------------- DeadCode::clear_basic_blocks
\* to_erase without `bb != func->get_entry_block()`.
to_erase_with_entry(f) ==
    SelectSeq(basic_blocks[f], LAMBDA bb : get_pre_basic_blocks(f, bb) = {})

RECURSIVE CascadeFrom(_, _)
\* The blocks left without predecessor once the blocks of dead are gone.
CascadeFrom(f, dead) ==
    LET more == {bb \in BlockSet(f) \ dead :
                    bb # entry_block[f] /\ get_pre_basic_blocks(f, bb) \ dead = {}}
    IN IF more = {} THEN dead ELSE CascadeFrom(f, dead \cup more)

\* to_erase with the predecessor sets looked at again after every deletion.
to_erase_cascading(f) ==
    SelectSeq(basic_blocks[f], LAMBDA bb : bb \in CascadeFrom(f, {}))

\* to_erase: the blocks without predecessors other than the entry block.
to_erase(f) ==
    SelectSeq(basic_blocks[f],
              LAMBDA bb : get_pre_basic_blocks(f, bb) = {} /\ bb # entry_block[f])

\* The erase loop linking every bb of to_erase into the function once more
\* instead of unlinking it.
EraseBlocks_relinking(f, dead) ==
    [basic_blocks EXCEPT ![f] = @ \o dead]

\* bb->erase_from_parent(); delete bb, for every bb of to_erase.
EraseBlocks(f, dead) ==
    [basic_blocks EXCEPT ![f] = SelectSeq(@, LAMBDA bb : bb \notin Range(dead))]

\* clear_basic_blocks without `changed = 1`.
clear_changed_never(dead) == FALSE

\* The value clear_basic_blocks returns: `changed = 1` for every block queued.
clear_changed(dead) == dead # <<>>

\* ------------------------------------------------------- DeadCode::sweep
\* wait_del without `!marked[ins]`.
wait_del_ignoring_marks(f) == {ins \in InstrSet(f) : ~is_critical(ins)}

\* wait_del: the instructions of func that are unmarked and not critical.
wait_del(f) == {ins \in InstrSet(f) : ins \notin marked /\ ~is_critical(ins)}

\* ins->get_parent()->erase_instr(ins) for every ins of dels.
EraseInstrs(dels) ==
    [bb \in DOMAIN instructions |->
        IF \E ins \in dels : parent[ins] = bb
        THEN SelectSeq(instructions[bb], LAMBDA i : i \notin dels)
        ELSE instructions[bb]]

\* sweep with `changed = true` outside the erase loop.
sweep_changed_always(dels) == TRUE

\* The value sweep returns: `changed = true` for every instruction erased.
sweep_changed(dels) == dels # {}

\* The IR as the properties look at it.
Snapshot == [basic_blocks |-> basic_blocks, instructions |-> instructions]

\* ------------------------------------------------------------ input modules
\* Function "helper" is one block: a pure instruction e that the return uses
\* and the return, preceded, when hd holds, by a pure instruction d nobody uses.
HelperKind == (<<"d", 0>> :> "add") @@ (<<"e", 0>> :> "add") @@ (<<"t", 0>> :> "ret")
HelperOperands ==
    (<<"d", 0>> :> <<>>) @@ (<<"e", 0>> :> <<>>) @@ (<<"t", 0>> :> << <<"e", 0>> >>)
HelperInstructions(hd) ==
    (IF hd THEN << <<"d", 0>> >> ELSE <<>>) \o << <<"e", 0>>, <<"t", 0>> >>
HelperParent == [i \in DOMAIN HelperKind |-> HelperEntry]

\* Control-flow family.  Function "main" has the blocks 1..NumBlocks, block 1
\* the entry.  Block b ends in `ret` (succ[b] = 0) or in `br succ[b]`.  The
\* entry holds a pure instruction x_1, block u holds a pure instruction x_u
\* that uses x_1 (when u is not the entry), and the last block starts with a
\* phi whose incoming value is x_u from block u.
CfgInstructions(b, u) ==
    (IF b = NumBlocks THEN << <<"phi", 0>> >> ELSE <<>>)
    \o (IF b = 1 \/ b = u THEN << <<"x", b>> >> ELSE <<>>)
    \o << <<"t", b>> >>

CfgModule(succ, u, hd) ==
    LET B == 1..NumBlocks
        I == {<<"x", 1>>, <<"x", u>>, <<"phi", 0>>} \cup {<<"t", b>> : b \in B}
    IN [kind |->
            [i \in I |-> IF i[1] = "x" THEN "add"
                         ELSE IF i[1] = "phi" THEN "phi"
                         ELSE IF succ[i[2]] = 0 THEN "ret" ELSE "br"]
            @@ HelperKind,
        operands |->
            [i \in I |-> IF i[1] = "x"
                         THEN (IF i[2] = 1 THEN <<>> ELSE << <<"x", 1>> >>)
                         ELSE IF i[1] = "phi" THEN << <<"x", u>>, MainBlock(u) >>
                         ELSE IF succ[i[2]] = 0 THEN <<>>
                         ELSE << MainBlock(succ[i[2]]) >>]
            @@ HelperOperands,
        parent |->
            [i \in I |-> IF i[1] = "phi" THEN MainBlock(NumBlocks) ELSE MainBlock(i[2])]
            @@ HelperParent,
        basic_blocks |->
            ("main" :> [b \in B |-> MainBlock(b)]) @@ ("helper" :> <<HelperEntry>>),
        instructions |->
            [bb \in {MainBlock(b) : b \in B} |-> CfgInstructions(bb[3], u)]
            @@ (HelperEntry :> HelperInstructions(hd))]

CfgModules ==
    {CfgModule(succ, u, hd) :
        succ \in [1..NumBlocks -> 0..NumBlocks], u \in 1..NumBlocks, hd \in BOOLEAN}

\* Data-flow family.  Function "main" is one block: the instructions v_1 ..
\* v_NumBody of any non-terminator kind, v_j using any of v_1 .. v_(j-1), then
\* a `ret` that returns nothing (r = 0) or v_r.  A call calls "helper", a store
\* writes the first global variable and a load reads the second.
BodyKinds == {"store", "call", "phi", "alloca", "load", "add"}

DataModule(k, uses, r, hd) ==
    LET V == 1..NumBody
        I == {<<"v", j>> : j \in V} \cup {<<"t", 1>>}
        ops(S) == [n \in DOMAIN SeqOfSet(S) |-> <<"v", SeqOfSet(S)[n]>>]
        top(j) == IF k[j] = "call" THEN << <<"fn", "helper">> >>
                  ELSE IF k[j] = "store" THEN << GlobalVariables[1] >>
                  ELSE IF k[j] = "load" THEN << GlobalVariables[2] >>
                  ELSE <<>>
    IN [kind |-> [i \in I |-> IF i[1] = "t" THEN "ret" ELSE k[i[2]]] @@ HelperKind,
        operands |->
            [i \in I |-> IF i[1] = "t"
                         THEN (IF r = 0 THEN <<>> ELSE << <<"v", r>> >>)
                         ELSE top(i[2]) \o ops(uses[i[2]])]
            @@ HelperOperands,
        parent |-> [i \in I |-> MainBlock(1)] @@ HelperParent,
        basic_blocks |-> ("main" :> <<MainBlock(1)>>) @@ ("helper" :> <<HelperEntry>>),
        instructions |->
            (MainBlock(1) :> ([j \in V |-> <<"v", j>>] \o << <<"t", 1>> >>))
            @@ (HelperEntry :> HelperInstructions(hd))]

DataModules ==
    {DataModule(k, uses, r, hd) :
        k \in [1..NumBody -> BodyKinds],
        uses \in {u \in [1..NumBody -> SUBSET (1..NumBody)] :
                     \A j \in 1..NumBody : u[j] \subseteq 1..(j - 1)},
        r \in 0..NumBody,
        hd \in BOOLEAN}

Init ==
    /\ \E m \in CfgModules \cup DataModules :
        /\ kind = m.kind
        /\ operands = m.operands
        /\ parent = m.parent
        /\ basic_blocks = m.basic_blocks
        /\ instructions = m.instructions
        /\ pre = [basic_blocks |-> m.basic_blocks, instructions |-> m.instructions]
        /\ iter_pre = [basic_blocks |-> m.basic_blocks, instructions |-> m.instructions]
    /\ entry_block = ("main" :> MainBlock(1)) @@ ("helper" :> HelperEntry)
    /\ marked = {}
    /\ work_list = <<>>
    /\ ins_count = 0
    /\ changed = FALSE
    /\ pc = "idle"
    /\ fidx = 1
    /\ calls = 0
    /\ iter = 0
    /\ swept = {}
    /\ clear_ret = <<>>
    /\ sweep_ret = <<>>
    /\ functions = Functions
    /\ global_variable = GlobalVariables
    /\ unused_funcs = <<>>
    /\ unused_globals = <<>>
    /\ found_log = <<>>
    /\ order = <<>>
    /\ mark_at = [func |-> "", ir |-> <<>>]
    /\ pushed = <<>>

\* --------------------------------------------------------- DeadCode::run
F == functions[fidx]

\* run() is entered: `bool changed{}`, func_info->run(), and the first
\* `changed = false` of the do-while loop, before the first function.
Run ==
    /\ pc = "idle"
    /\ calls < MaxRuns
    /\ changed' = FALSE
    /\ fidx' = 1
    /\ pc' = "clear"
    /\ iter' = 1
    /\ pre' = Snapshot
    /\ iter_pre' = Snapshot
    /\ clear_ret' = <<>>
    /\ sweep_ret' = <<>>
    /\ UNCHANGED <<ir_vars, marked, work_list, ins_count, calls, swept>>
    /\ UNCHANGED <<module_vars, scan_vars>>
    /\ order' = <<>>
    /\ UNCHANGED <<mark_at, pushed>>

\* changed |= clear_basic_blocks(func)
ClearBasicBlocks ==
    /\ pc = "clear"
    /\ LET dead == to_erase(F)
           ret == clear_changed(dead)
       IN /\ basic_blocks' = EraseBlocks(F, dead)
          /\ changed' = (changed \/ ret)
          /\ clear_ret' = Append(clear_ret, ret)
    /\ pc' = "mark"
    /\ UNCHANGED <<kind, operands, parent, entry_block, instructions>>
    /\ UNCHANGED <<marked, work_list, ins_count, fidx>>
    /\ UNCHANGED <<calls, iter, pre, iter_pre, swept, sweep_ret>>
    /\ UNCHANGED <<module_vars, scan_vars>>
    /\ order' = Append(order, <<"clear", F>>)
    /\ UNCHANGED <<mark_at, pushed>>

\* mark(func) up to its while loop: the marks and the work list are reset and
\* every critical instruction of func is marked and queued.
MarkReset ==
    /\ pc = "mark"
    /\ LET st == MarkCritical([marked |-> {}, work_list |-> <<>>], FuncInstrs(F))
       IN /\ marked' = st.marked
          /\ work_list' = st.work_list
          /\ pushed' = st.work_list
    /\ order' = Append(order, <<"mark", F>>)
    /\ mark_at' = [func |-> F, ir |-> Snapshot]
    /\ pc' = "drain"
    /\ UNCHANGED <<ir_vars, ins_count, changed, fidx, hist_vars>>
    /\ UNCHANGED <<module_vars, scan_vars>>

\* The operands of the instruction at the front of the work list that are
\* deleted objects: reading them is undefined.
Dangling(ins) == {k \in DOMAIN operands[ins] : Destroyed(operands[ins][k])}

\* One turn of mark's while loop: the front of the work list is taken off and
\* its operands are marked.  A dynamic_cast on a deleted object gives either
\* answer.
MarkDrain ==
    /\ pc = "drain"
    /\ work_list # <<>>
    /\ LET ins == Head(work_list)
       IN \E cast \in [Dangling(ins) -> BOOLEAN] :
            LET st == MarkOperands([marked |-> marked, work_list |-> Tail(work_list)],
                                   operands[ins], 1, cast)
            IN /\ marked' = st.marked
               /\ work_list' = st.work_list
               /\ pushed' = pushed \o SubSeq(st.work_list, Len(work_list),
                                              Len(st.work_list))
    /\ UNCHANGED <<order, mark_at>>
    /\ UNCHANGED <<ir_vars, ins_count, changed, pc, fidx, hist_vars>>
    /\ UNCHANGED <<module_vars, scan_vars>>

\* The other outcome of a dynamic_cast on a deleted object: the process dies.
MarkCrash ==
    /\ pc = "drain"
    /\ work_list # <<>>
    /\ Dangling(Head(work_list)) # {}
    /\ pc' = "crashed"
    /\ UNCHANGED <<ir_vars, marked, work_list, ins_count, changed, fidx, hist_vars>>
    /\ UNCHANGED <<module_vars, scan_vars>>
    /\ UNCHANGED trace_vars

\* changed |= sweep(func), then the next function or the loop test.
Sweep ==
    /\ pc = "drain"
    /\ work_list = <<>>
    /\ LET dels == wait_del(F)
           ret == sweep_changed(dels)
       IN /\ instructions' = EraseInstrs(dels)
          /\ ins_count' = ins_count + Cardinality(dels)
          /\ changed' = (changed \/ ret)
          /\ swept' = dels
          /\ sweep_ret' = Append(sweep_ret, ret)
    /\ IF fidx < Len(functions)
       THEN fidx' = fidx + 1 /\ pc' = "clear"
       ELSE fidx' = fidx /\ pc' = "while"
    /\ UNCHANGED <<kind, operands, parent, entry_block, basic_blocks>>
    /\ UNCHANGED <<marked, work_list>>
    /\ UNCHANGED <<calls, iter, pre, iter_pre, clear_ret>>
    /\ UNCHANGED <<module_vars, scan_vars>>
    /\ order' = Append(order, <<"sweep", F>>)
    /\ UNCHANGED <<mark_at, pushed>>

\* while (changed): another pass over the functions, starting with
\* `changed = false`.
LoopAgain ==
    /\ pc = "while"
    /\ changed
    /\ changed' = FALSE
    /\ fidx' = 1
    /\ pc' = "clear"
    /\ iter' = iter + 1
    /\ iter_pre' = Snapshot
    /\ clear_ret' = <<>>
    /\ sweep_ret' = <<>>
    /\ UNCHANGED <<ir_vars, marked, work_list, ins_count, calls, pre, swept>>
    /\ UNCHANGED <<module_vars, scan_vars>>
    /\ order' = <<>>
    /\ UNCHANGED <<mark_at, pushed>>

\* The loop left without the test of changed.
LoopExit_regardless ==
    /\ pc = "while"
    /\ pc' = "globally"
    /\ UNCHANGED <<ir_vars, marked, work_list, ins_count, changed, fidx, hist_vars>>
    /\ UNCHANGED <<module_vars, scan_vars>>
    /\ UNCHANGED trace_vars

\* The loop is left.
LoopExit ==
    /\ pc = "while"
    /\ ~changed
    /\ pc' = "globally"
    /\ UNCHANGED <<ir_vars, marked, work_list, ins_count, changed, fidx, hist_vars>>
    /\ UNCHANGED <<module_vars, scan_vars>>
    /\ UNCHANGED trace_vars

\* ------------------------------------------------ DeadCode::sweep_globally
\* The first loop without the test for "main".
find_unused_funcs_with_main ==
    SelectSeq(functions, LAMBDA f : Cardinality(get_use_list(<<"fn", f>>)) = 0)

\* unused_funcs: the functions with an empty use list, except "main".
find_unused_funcs ==
    SelectSeq(functions,
              LAMBDA f : Cardinality(get_use_list(<<"fn", f>>)) = 0 /\ f # "main")

\* unused_globals: the global variables with an empty use list.
find_unused_globals ==
    SelectSeq(global_variable, LAMBDA g : Cardinality(get_use_list(g)) = 0)

\* The commented-out loops, had they been written: the unused functions are
\* taken out of the module.
remove_unused_funcs_erasing(unused) ==
    SelectSeq(functions, LAMBDA f : f \notin Range(unused))

\* The loops over unused_funcs and unused_globals are commented out: the
\* functions and the global variables of the module stay.
remove_unused_funcs(unused) == functions
remove_unused_globals(unused) == global_variable

\* sweep_globally() and the return of run(): the scan collects the unused
\* functions and globals and only logs how many there are.
SweepGlobally ==
    /\ pc = "globally"
    /\ unused_funcs' = find_unused_funcs
    /\ unused_globals' = find_unused_globals
    /\ functions' = remove_unused_funcs(unused_funcs')
    /\ global_variable' = remove_unused_globals(unused_globals')
    /\ found_log' = IF unused_funcs' # <<>> \/ unused_globals' # <<>>
                    THEN Append(found_log, [functions |-> Len(unused_funcs'),
                                            globals |-> Len(unused_globals')])
                    ELSE found_log
    /\ pc' = "idle"
    /\ calls' = calls + 1
    /\ UNCHANGED <<ir_vars, marked, work_list, ins_count, changed, fidx>>
    /\ UNCHANGED <<iter, pre, iter_pre, swept, clear_ret, sweep_ret>>
    /\ UNCHANGED trace_vars

Next ==
    \/ Run
    \/ ClearBasicBlocks
    \/ MarkReset
    \/ MarkDrain
    \/ MarkCrash
    \/ Sweep
    \/ LoopAgain
    \/ LoopExit
    \/ SweepGlobally

Spec == Init /\ [][Next]_vars

\* ============================================================== properties
\* The kinds the pass is to keep.
CriticalKinds == {"store", "ret", "call", "br", "phi", "alloca", "load"}

\* run() has returned at least once and is not running.
Returned == pc = "idle" /\ calls >= 1

\* mark(func) has returned: its while loop found the work list empty.
MarkReturned == pc = "drain" /\ work_list = <<>>

PreInstrSet(f) == Range(FuncInstrsOf(pre.basic_blocks, pre.instructions, f))
PreBlockSet(f) == Range(pre.basic_blocks[f])

\* The instructions that have ins among their operands.
Users(ins) == {j \in DOMAIN operands : ins \in Range(operands[j])}

RECURSIVE OperandClosure(_, _)
\* The least set that contains S and every operand of a member that is an
\* instruction of I.
OperandClosure(S, I) ==
    LET T == S \cup {o \in I : \E j \in S : o \in Range(operands[j])}
    IN IF T = S THEN S ELSE OperandClosure(T, I)

\* The critical instructions of f and what they reach over operand edges.
LiveClosure(f) ==
    OperandClosure({i \in InstrSet(f) : kind[i] \in CriticalKinds}, InstrSet(f))

\* An operand that is a deleted block or an instruction of a deleted block.
Stranded(v) ==
    IF IsBlock(v) THEN v \notin AllBlocks
    ELSE IsInstruction(v) /\ parent[v] \notin AllBlocks

\* Instructions plus blocks of the whole module.
Size(snap) ==
    LET Sum(n) == n["main"] + n["helper"]
    IN Sum([f \in FuncNames |-> Len(snap.basic_blocks[f])])
       + Sum([f \in FuncNames |-> Len(FuncInstrsOf(snap.basic_blocks, snap.instructions, f))])

\* ---- C1
\* C1 as stated: every store, return, call, branch, phi, alloca and load that a
\* function held when run() was entered is still in that function.
C1_CriticalNeverDeleted ==
    \A f \in FuncNames : \A i \in PreInstrSet(f) :
        kind[i] \in CriticalKinds => i \in InstrSet(f)

\* C1 amended: every store, return, call, branch, phi, alloca and load that a
\* function held when run() was entered is still in that function, unless
\* clear_basic_blocks deleted the block that holds it.
C1_CriticalKeptInKeptBlocks ==
    \A f \in FuncNames : \A i \in PreInstrSet(f) :
        (kind[i] \in CriticalKinds /\ parent[i] \in BlockSet(f)) => i \in InstrSet(f)

\* run() has returned, sweep has erased an instruction of main, and a load
\* nobody uses is still there.
C1_Witness ==
    /\ Returned
    /\ PreInstrSet("main") # InstrSet("main")
    /\ \E i \in InstrSet("main") : kind[i] = "load" /\ Users(i) = {}

\* ---- C2
\* C2: after sweep(func), no instruction that remains has an operand that this
\* sweep erased.
C2_SweepSafety ==
    \A i \in AllInstrs : Range(operands[i]) \cap swept = {}

\* A sweep has erased an instruction while another instruction that has an
\* instruction operand stays.
C2_Witness ==
    /\ swept # {}
    /\ \E i \in InstrSet(parent[CHOOSE d \in swept : TRUE][2]) :
          \E o \in Range(operands[i]) : IsInstruction(o) /\ o \in AllInstrs

\* ---- C3
\* C3: in the module run() returns, no instruction has as operand a deleted
\* block or an instruction of a deleted block.
C3_NoStrandedOperand ==
    Returned => \A i \in AllInstrs : \A o \in Range(operands[i]) : ~Stranded(o)

\* ---- C4
\* C4: when mark(func) returns, the marked instructions of func are exactly
\* the critical ones and what they reach over operand edges.
C4_MarkedIsClosure ==
    MarkReturned => marked \cap InstrSet(F) = LiveClosure(F)

\* ---- C5
\* C5: a run() that follows a run() leaves the blocks and the instructions of
\* every function as they were.
C5_SecondRunChangesNothing ==
    ((calls >= 1 /\ pc # "idle") \/ (calls >= 2 /\ pc = "idle")) => Snapshot = pre

\* ---- C6
\* C6: an outer iteration that asks for another one has removed an instruction
\* or a block, and there are at most (instructions + blocks at entry) + 1
\* outer iterations.
C6_BoundedIterations ==
    /\ iter <= Size(pre) + 1
    /\ (pc = "while" /\ changed) => Size(Snapshot) < Size(iter_pre)

\* The second outer iteration has removed something and asks for a third.
C6_Witness == pc = "while" /\ changed /\ iter = 2

\* ---- C7
\* C7: the entry block of every function is in the function, in every state.
C7_EntryBlockKept ==
    \A f \in FuncNames : entry_block[f] \in BlockSet(f)

\* clear_basic_blocks has deleted a block of main whose entry block has no
\* predecessor.
C7_Witness ==
    /\ PreBlockSet("main") # BlockSet("main")
    /\ get_pre_basic_blocks("main", entry_block["main"]) = {}
    /\ entry_block["main"] \in BlockSet("main")

\* ---- C8
\* The first sweep of f in this invocation is over.
FirstSweepDone(f) ==
    \/ pc \in {"while", "globally", "idle"} /\ iter >= 1
    \/ iter > 1
    \/ \E n \in 1..Len(sweep_ret) : Functions[n] = f

\* C8: when run() returns every instruction left is critical or reached over
\* operand edges from a critical instruction left in its function, and a
\* non-critical instruction without users does not outlive the first sweep of
\* its function.
C8_OnlyLiveInstructionsLeft ==
    /\ Returned => \A f \in FuncNames : InstrSet(f) \subseteq LiveClosure(f)
    /\ \A f \in FuncNames :
          FirstSweepDone(f) =>
              \A i \in InstrSet(f) : kind[i] \in CriticalKinds \/ Users(i) # {}

\* ---- C9
Orphan(f, bb) == bb # entry_block[f] /\ get_pre_basic_blocks(f, bb) = {}

\* C9: a clear_basic_blocks call deletes every non-entry block of its function
\* that has no predecessor, and when run() returns no function holds such a
\* block nor an instruction of a deleted block.
C9_CascadeReachesFixedPoint ==
    /\ [](Returned =>
            \A f \in FuncNames :
                /\ \A bb \in BlockSet(f) : ~Orphan(f, bb)
                /\ \A i \in InstrSet(f) : parent[i] \in BlockSet(f))
    /\ [][(pc = "clear" /\ pc' = "mark") =>
            \A bb \in BlockSet(F) : Orphan(F, bb) => bb \notin Range(basic_blocks'[F])]_vars

\* run() has returned after deleting, in its second outer iteration or later,
\* a block that lost its last predecessor to an earlier deletion.
C9_Witness ==
    /\ Returned
    /\ \E bb \in PreBlockSet("main") \ BlockSet("main") :
          \E p \in PreBlockSet("main") \ BlockSet("main") :
              \E i \in Range(pre.instructions[p]) :
                  kind[i] = "br" /\ bb \in Range(operands[i])

\* ---- C10
\* C10: no step adds an instruction or a block to a function: the blocks and
\* the instructions of every function after a step are among those before it,
\* and their numbers do not grow.
C10_MonotonicShrink ==
    [][\A f \in FuncNames :
          /\ Len(basic_blocks'[f]) <= Len(basic_blocks[f])
          /\ Range(basic_blocks'[f]) \subseteq Range(basic_blocks[f])
          /\ Len(Flatten(basic_blocks'[f], instructions'))
                <= Len(Flatten(basic_blocks[f], instructions))
          /\ Range(Flatten(basic_blocks'[f], instructions'))
                \subseteq Range(Flatten(basic_blocks[f], instructions))]_vars

\* An outer iteration ends with fewer blocks and fewer instructions in main
\* than it began with.
C10_Witness ==
    /\ pc = "while"
    /\ Len(basic_blocks["main"]) < Len(iter_pre.basic_blocks["main"])
    /\ Len(FuncInstrs("main"))
          < Len(FuncInstrsOf(iter_pre.basic_blocks, iter_pre.instructions, "main"))

\* ---- C11
\* C11: the functions and the global variables of the module are always those
\* it had before run(), and the step sweep_globally changes nothing of the IR.
C11_ScanRemovesNothing ==
    /\ [](functions = Functions /\ global_variable = GlobalVariables)
    /\ [][pc = "globally" =>
            /\ functions' = functions
            /\ global_variable' = global_variable
            /\ ir_vars' = ir_vars]_vars

\* run() has returned after a scan that found a function other than main and
\* both global variables unused, and all of them are still in the module.
C11_Witness ==
    /\ Returned
    /\ unused_funcs = <<"helper">>
    /\ Len(unused_globals) = Len(GlobalVariables)
    /\ "helper" \in Range(functions)
    /\ Range(unused_globals) \subseteq Range(global_variable)

\* ---- C12
\* The call instructions of the module that call f.
CallSites(f) ==
    {j \in AllInstrs : kind[j] = "call" /\ <<"fn", f>> \in Range(operands[j])}

\* C12: the scan of a run() that has returned found as many unused functions
\* as there are functions other than "main" with an empty use list, and as
\* many unused globals as there are global variables with an empty use list;
\* "main" is not among them, the message logged gives these two numbers, and a
\* function without call sites makes the number of functions 1.
C12_ScanCounts ==
    Returned =>
        LET nf == Cardinality({f \in Range(functions) :
                                  get_use_list(<<"fn", f>>) = {} /\ f # "main"})
            ng == Cardinality({g \in Range(global_variable) : get_use_list(g) = {}})
        IN /\ Len(unused_funcs) = nf
           /\ Len(unused_globals) = ng
           /\ "main" \notin Range(unused_funcs)
           /\ (nf > 0 \/ ng > 0) =>
                 /\ found_log # <<>>
                 /\ found_log[Len(found_log)] = [functions |-> nf, globals |-> ng]
           /\ CallSites("helper") = {} => nf = 1

\* run() has returned after a scan that found helper, which nobody calls, and
\* one of the two global variables unused.
C12_Witness ==
    /\ Returned
    /\ CallSites("helper") = {}
    /\ unused_funcs = <<"helper">>
    /\ Len(unused_globals) = 1

\* run() has returned after a scan that found no unused function: helper is
\* called, main is not and is not counted.
C12_WitnessCalled ==
    /\ Returned
    /\ CallSites("helper") # {}
    /\ unused_funcs = <<>>

\* ---- C13
\* C13: a call of clear_basic_blocks(func) deletes exactly the blocks of func
\* that, when the call starts, are not the entry block and have no
\* predecessor, and returns true exactly when there is such a block.
C13_PrunerContract ==
    [][(pc = "clear" /\ pc' = "mark") =>
          LET Q == {bb \in BlockSet(F) : Orphan(F, bb)}
          IN /\ Range(basic_blocks'[F]) = BlockSet(F) \ Q
             /\ clear_ret'[Len(clear_ret')] = (Q # {})
             /\ changed' = (changed \/ Q # {})]_vars

\* clear_basic_blocks has returned true and has left a block that lost its
\* last predecessor to this call.
C13_Witness ==
    /\ pc = "mark"
    /\ clear_ret[Len(clear_ret)]
    /\ \E bb \in BlockSet(F) : Orphan(F, bb)

\* ---- C14
\* C14: when mark(func) has returned every unmarked instruction of func is
\* non-critical, and a call of sweep(func) erases exactly the instructions of
\* func that are unmarked and non-critical, counts them, and returns true
\* exactly when there is one.
C14_SweeperContract ==
    /\ [](MarkReturned => \A i \in InstrSet(F) \ marked : kind[i] \notin CriticalKinds)
    /\ [][(pc = "drain" /\ pc' \in {"clear", "while"}) =>
            LET D == {i \in InstrSet(F) : i \notin marked /\ kind[i] \notin CriticalKinds}
            IN /\ Range(Flatten(basic_blocks[F], instructions')) = InstrSet(F) \ D
               /\ sweep_ret'[Len(sweep_ret')] = (D # {})
               /\ ins_count' = ins_count + Cardinality(D)]_vars

\* sweep has just returned true after erasing an unmarked instruction and
\* keeping a marked non-critical instruction of the same function.
C14_Witness ==
    /\ pc \in {"clear", "while"}
    /\ sweep_ret # <<>>
    /\ sweep_ret[Len(sweep_ret)]
    /\ \E d \in swept : \E i \in InstrSet(parent[d][2]) :
          kind[i] \notin CriticalKinds /\ i \in marked

\* The steps one outer iteration of run() makes, in order: for each function
\* of the module, clear_basic_blocks, mark, sweep.
ExpectedOrder ==
    [n \in 1..(3 * Len(functions)) |->
        << <<"clear", "mark", "sweep">>[((n - 1) % 3) + 1],
           functions[((n - 1) \div 3) + 1] >>]

\* C15: in every outer iteration run() goes through the functions of the
\* module in order and calls clear_basic_blocks, mark, sweep on each; while
\* mark(func) runs and when sweep(func) starts, the IR is the one mark(func)
\* started from, the marks were computed for func and hold no instruction of
\* another function; sweep_globally starts only after an iteration in which
\* no call reported a change, and that iteration left the IR as it found it.
C15_DriverOrdering ==
    /\ Len(order) <= Len(ExpectedOrder)
    /\ \A n \in DOMAIN order : order[n] = ExpectedOrder[n]
    /\ pc = "clear" => Len(order) = 3 * (fidx - 1)
    /\ pc = "mark" => Len(order) = 3 * (fidx - 1) + 1
    /\ pc = "drain" =>
          /\ Len(order) = 3 * (fidx - 1) + 2
          /\ mark_at.func = F
          /\ mark_at.ir = Snapshot
          /\ \A g \in Range(functions) \ {F} : marked \cap PreInstrSet(g) = {}
    /\ pc \in {"while", "globally"} => order = ExpectedOrder
    /\ pc = "globally" =>
          /\ ~changed
          /\ \A n \in DOMAIN clear_ret : ~clear_ret[n]
          /\ \A n \in DOMAIN sweep_ret : ~sweep_ret[n]
          /\ Len(clear_ret) = Len(functions)
          /\ Len(sweep_ret) = Len(functions)
          /\ Snapshot = iter_pre

\* The scan is about to start after a second outer iteration, which went
\* through every function and changed nothing.
C15_Witness ==
    /\ pc = "globally"
    /\ iter >= 2
    /\ order = ExpectedOrder
    /\ Snapshot # pre

\* The dequeues the drain loop of the current mark has made.
Dequeues == Len(pushed) - Len(work_list)

\* C16: during one mark(func) call no instruction is pushed onto the work
\* queue twice, every instruction in the queue is marked, and the drain loop
\* makes at most as many dequeues as func has instructions.
C16_WorkQueueDiscipline ==
    pc = "drain" =>
        /\ \A a, b \in DOMAIN pushed : a # b => pushed[a] # pushed[b]
        /\ Range(work_list) \subseteq marked
        /\ Dequeues <= Cardinality(InstrSet(F))

\* C17: in every outer iteration of run() after the first, sweep(func)
\* returns true only if clear_basic_blocks(func) returned true in that same
\* iteration.
C17_OneSweepSuffices ==
    iter > 1 => \A n \in DOMAIN sweep_ret : sweep_ret[n] => clear_ret[n]

\* ---- C18
\* The predecessors of block bb of function f in the IR (bbs, instrs).
PredsIn(bbs, instrs, f, bb) ==
    {p \in Range(bbs[f]) :
        \E i \in Range(instrs[p]) : kind[i] = "br" /\ bb \in Range(operands[i])}

\* The step keeps the blocks of function f and their predecessor sets.
CfgKept(f) ==
    /\ basic_blocks'[f] = basic_blocks[f]
    /\ \A bb \in BlockSet(f) :
          PredsIn(basic_blocks', instructions', f, bb)
              = PredsIn(basic_blocks, instructions, f, bb)

\* The step changes nothing of function f.
FunctionKept(f) ==
    /\ basic_blocks'[f] = basic_blocks[f]
    /\ entry_block'[f] = entry_block[f]
    /\ \A bb \in BlockSet(f) : instructions'[bb] = instructions[bb]
    /\ \A i \in InstrSet(f) :
          kind'[i] = kind[i] /\ operands'[i] = operands[i] /\ parent'[i] = parent[i]

\* C18: the steps of mark(func) change nothing in the IR; sweep(func) erases
\* no branch and no return and keeps the blocks of func and the predecessor
\* set of each of them; a step that changes the blocks of a function or a
\* predecessor set is a clear_basic_blocks; and clear_basic_blocks, mark and
\* sweep change nothing of a function other than the one they are called on.
C18_MarkAndSweepKeepCfg ==
    [][/\ (pc \in {"mark", "drain"} /\ pc' \in {"drain", "crashed"}) => ir_vars' = ir_vars
       /\ (pc = "drain" /\ pc' \in {"clear", "while"}) =>
             /\ \A i \in InstrSet(F) \ Range(FuncInstrsOf(basic_blocks', instructions', F)) :
                   kind[i] \notin {"br", "ret"}
             /\ CfgKept(F)
       /\ pc # "clear" => \A f \in FuncNames : CfgKept(f)
       /\ pc \in {"clear", "mark", "drain"} =>
             \A g \in FuncNames \ {F} : FunctionKept(g)]_vars

\* sweep has just erased an instruction of a function that has a block with
\* a predecessor, in a block that ends with a branch.
C18_Witness ==
    /\ pc \in {"clear", "while"}
    /\ sweep_ret # <<>>
    /\ sweep_ret[Len(sweep_ret)]
    /\ \E d \in swept :
          /\ \E i \in Range(instructions[parent[d]]) : kind[i] = "br"
          /\ \E bb \in BlockSet(parent[d][2]) :
                get_pre_basic_blocks(parent[d][2], bb) # {}

====
